---- MODULE Spec2Model ----
(***************************************************************************)
(* Model of solution_nov24.ipynb ("Beside the Point"):                     *)
(*   - vectorized_simulation: rejection sampling of blue points, drawing   *)
(*     of red points, masking of near-equal x-coordinates, computation of  *)
(*     the candidate boundary point a and of the success fraction;         *)
(*   - the exact evaluator's geometry helpers (r1, r2, c_ad, c_bd,         *)
(*     intersection_area) and the two dblquad integration regions.         *)
(*                                                                         *)
(* Coordinates are exact multiples of 1e-8: the integer k stands for the   *)
(* real k * 1e-8, so the unit square is [0, One] x [0, One].  Arithmetic   *)
(* is exact (floating-point rounding is not modelled).  Products of two    *)
(* coordinates exceed 32 bits and are carried in base-Base limbs.          *)
(***************************************************************************)
EXTENDS Integers, Sequences, FiniteSets

VARIABLES
    num_samples,   \* argument of vectorized_simulation
    pc,            \* position in vectorized_simulation
    blue,          \* accepted blue points
    red,           \* red points
    mask,          \* boolean array of retained pairs
    a_vals,        \* candidate boundary points of the retained pairs
    hits,          \* (a_vals >= 0) & (a_vals <= 1)
    successes,     \* np.sum of hits
    probability,   \* returned value
    probe,         \* point (xx, yy) handed to the integrand
    integrand      \* value of A(xx, yy) at probe

simVars == <<num_samples, pc, blue, red, mask, a_vals, hits, successes,
             probability>>

exactVars == <<probe, integrand>>

vars == <<simVars, exactVars>>

\* Number of grid steps per side of the unit square handed to the integrand.
GridN == 10

\* Largest num_samples explored.
MaxN == 2

\* 1.0 in units of 1e-8.
One == 100000000

\* 0.5 in units of 1e-8 (the literal 0.5 of the sampler and of dblquad).
Half == 50000000

\* atol=1e-8 of np.isclose, in units of 1e-8.
ATOL == 1

\* 1 / rtol for np.isclose's default rtol = 1e-5.
RTOL_INV == 100000

\* Limb base for wide products: One = Base * Base.
Base == 10000

-----------------------------------------------------------------------------
(* Inputs the random source may deliver: points of [0,1)^2.                *)

Pt(px, py) == [x |-> px, y |-> py]

\* np.random.rand(num_samples, 2): each row is one of these points.
RandPoints ==
    { Pt(40000000, 30000000),   \* (0.4, 0.3)        inside the triangle
      Pt(60000000, 30000000),   \* (0.6, 0.3)        inside the triangle
      Pt(50000000, 10000000),   \* (0.5, 0.1)        inside the triangle
      Pt(4, 4),                 \* (4e-8, 4e-8)      on the edge y = x
      Pt(6, 8),                 \* (6e-8, 8e-8)      y > x
      Pt(30000000, 40000000),   \* (0.3, 0.4)        y > x
      Pt(70000000, 40000000),   \* (0.7, 0.4)        y > 1 - x
      Pt(50000000, 70000000),   \* (0.5, 0.7)        y > 0.5
      Pt(50000400, 70000000) }  \* (0.500004, 0.7)   y > 0.5

\* All arrays of shape (n, 2) the random source may deliver.
Batches(n) == [1..n -> RandPoints]

-----------------------------------------------------------------------------
(* Blue-region rejection sampler.                                          *)

\* Faulty variant of valid: the test y <= x is lost.
valid_without_y_le_x(p) ==
    /\ p.y <= Half
    /\ p.y <= One - p.x

\* valid = (y <= 0.5) & (y <= x) & (y <= 1 - x)
valid(p) ==
    /\ p.y <= Half
    /\ p.y <= p.x
    /\ p.y <= One - p.x

RECURSIVE Compress(_, _)
\* pts[valid].tolist(): the rows of pts whose flag is set, in order.
Compress(pts, n) ==
    IF n = 0 THEN <<>>
    ELSE IF valid(pts[n]) THEN Append(Compress(pts, n - 1), pts[n])
         ELSE Compress(pts, n - 1)

\* Faulty variant of Extend: the accepted rows replace the list.
Extend_replacing(b, pts) == Compress(pts, num_samples)

\* blue.extend(pts[valid].tolist())
Extend(b, pts) == b \o Compress(pts, num_samples)

\* while len(blue) < num_samples
LoopCond == Len(blue) < num_samples

\* One iteration of the while loop with the batch pts.
SampleRoundWith(pts) ==
    /\ pc = "loop"
    /\ LoopCond
    /\ blue' = Extend(blue, pts)
    /\ UNCHANGED <<num_samples, pc, red, mask, a_vals, hits, successes,
                   probability, exactVars>>

SampleRound == \E pts \in Batches(num_samples) : SampleRoundWith(pts)

\* Faulty variant of Slice: no truncation.
Slice_whole(b) == b

\* blue[:num_samples]
Slice(b) == SubSeq(b, 1, IF Len(b) < num_samples THEN Len(b) ELSE num_samples)

\* Loop exit followed by blue = np.array(blue[:num_samples]).
Truncate ==
    /\ pc = "loop"
    /\ ~LoopCond
    /\ blue' = Slice(blue)
    /\ pc' = "red"
    /\ UNCHANGED <<num_samples, red, mask, a_vals, hits, successes,
                   probability, exactVars>>

\* red = np.random.rand(num_samples, 2)
DrawRed ==
    /\ pc = "red"
    /\ \E pts \in Batches(num_samples) : red' = pts
    /\ pc' = "eval"
    /\ UNCHANGED <<num_samples, blue, mask, a_vals, hits, successes,
                   probability, exactVars>>

-----------------------------------------------------------------------------
(* Exact wide arithmetic.  A wide integer is <<h, m, l>>, standing for      *)
(* h * Base^2 + m * Base + l.                                              *)

\* Carry propagation: afterwards 0 <= m < Base and 0 <= l < Base.
Norm(t) ==
    LET m1 == t[2] + (t[3] \div Base)
        l1 == t[3] % Base
        h1 == t[1] + (m1 \div Base)
        m2 == m1 % Base
    IN  <<h1, m2, l1>>

\* u * v for |u|, |v| <= 2 * One.
Mul(u, v) ==
    LET uh == u \div Base
        ul == u % Base
        vh == v \div Base
        vl == v % Base
    IN  Norm(<<uh * vh, uh * vl + ul * vh, ul * vl>>)

Add(s, t) == Norm(<<s[1] + t[1], s[2] + t[2], s[3] + t[3]>>)

Sub(s, t) == Norm(<<s[1] - t[1], s[2] - t[2], s[3] - t[3]>>)

\* -1, 0 or 1.
Sign(t) ==
    LET n == Norm(t)
    IN  IF n[1] > 0 THEN 1
        ELSE IF n[1] < 0 THEN -1
        ELSE IF n[2] > 0 \/ n[3] > 0 THEN 1
        ELSE 0

SignInt(v) == IF v > 0 THEN 1 ELSE IF v < 0 THEN -1 ELSE 0

Abs(v) == IF v < 0 THEN -v ELSE v

-----------------------------------------------------------------------------
(* Pair evaluator.                                                         *)

\* np.isclose(a, b, atol=1e-8): |a - b| <= atol + rtol * |b| with the default
\* rtol = 1e-5.  On integers, d <= ATOL + b / RTOL_INV iff
\* d <= ATOL + floor(b / RTOL_INV).
isclose(a, b) == Abs(a - b) <= ATOL + (Abs(b) \div RTOL_INV)

\* Faulty variant of MaskOf: the negation is lost.
MaskOf_not_negated(b, r) == [i \in 1..num_samples |-> isclose(r[i].x, b[i].x)]

\* mask = ~np.isclose(red[:, 0], blue[:, 0], atol=1e-8)
MaskOf(b, r) == [i \in 1..num_samples |-> ~isclose(r[i].x, b[i].x)]

\* The element of a_vals for one pair: numerator
\* x2**2 - x1**2 + y2**2 - y1**2 (in units of 1e-16) and denominator
\* 2 * (x2 - x1) (in units of 1e-8); the quotient is a in units of 1e-8.
a_val(b, r) ==
    [ num |-> Sub(Add(Sub(Mul(r.x, r.x), Mul(b.x, b.x)), Mul(r.y, r.y)),
                  Mul(b.y, b.y)),
      den |-> 2 * (r.x - b.x) ]

\* Faulty variant of GE0: a_vals > 0.
GE0_strict(a) ==
    IF a.den = 0 THEN Sign(a.num) > 0
    ELSE Sign(a.num) * SignInt(a.den) > 0

\* a_vals >= 0 on a float quotient; a zero divisor yields inf, -inf or nan.
GE0(a) ==
    IF a.den = 0 THEN Sign(a.num) > 0
    ELSE Sign(a.num) * SignInt(a.den) >= 0

\* a_vals <= 1 on a float quotient; a zero divisor yields inf, -inf or nan.
LE1(a) ==
    IF a.den = 0 THEN Sign(a.num) < 0
    ELSE Sign(Sub(a.num, Mul(One, a.den))) * SignInt(a.den) <= 0

\* (a_vals >= 0) & (a_vals <= 1)
Hit(a) == GE0(a) /\ LE1(a)

\* Indices selected by a boolean array, in increasing order.
Selected(m) == { i \in DOMAIN m : m[i] }

RECURSIVE Rank(_, _)
\* Position of index i among the selected indices of m.
Rank(m, i) == IF i = 0 THEN 0 ELSE Rank(m, i - 1) + (IF m[i] THEN 1 ELSE 0)

\* Boolean indexing x[mask]: the k-th selected index.
Pick(m, k) == CHOOSE i \in Selected(m) : Rank(m, i) = k

\* a_vals = (red[mask,0]**2 - ... ) / (2 * (red[mask,0] - blue[mask,0]))
AValsOf(b, r, m) ==
    [k \in 1..Cardinality(Selected(m)) |-> a_val(b[Pick(m, k)], r[Pick(m, k)])]

\* np.sum of a boolean array.
SumBool(flags) == Cardinality({ k \in DOMAIN flags : flags[k] })

\* successes / np.sum(mask): numpy yields nan for 0 / 0.
Divide(s, n) ==
    IF n = 0 THEN [kind |-> "nan"]
    ELSE [kind |-> "frac", num |-> s, den |-> n]

\* Lines 113-123 of vectorized_simulation.
Evaluate ==
    /\ pc = "eval"
    /\ LET m  == MaskOf(blue, red)
           av == AValsOf(blue, red, m)
           h  == [k \in DOMAIN av |-> Hit(av[k])]
           s  == SumBool(h)
       IN  /\ mask' = m
           /\ a_vals' = av
           /\ hits' = h
           /\ successes' = s
           /\ probability' = Divide(s, SumBool(m))
    /\ pc' = "done"
    /\ UNCHANGED <<num_samples, blue, red, exactVars>>

-----------------------------------------------------------------------------
(* Exact evaluator: geometry helpers.  A radius is carried as its square   *)
(* (a wide integer in units of 1e-16): the square root is zero exactly     *)
(* when its argument is.  Angles and areas are carried as "zero", "pos"    *)
(* or "nan".                                                               *)

\* r1(x, y) = sqrt(x**2 + y**2)
r1(x, y) == Add(Mul(x, x), Mul(y, y))

\* r2(x, y) = sqrt((1 - x)**2 + y**2)
r2(x, y) == Add(Mul(One - x, One - x), Mul(y, y))

\* Faulty variant of RadiusIsZero: rr < 0, which no radius satisfies.
RadiusIsZero_negative(rr) == Sign(rr) < 0

\* rr == 0
RadiusIsZero(rr) == Sign(rr) = 0

\* 2 * arccos(clip(n / (2 * rr), -1, 1)) for the numerator n (a wide integer
\* in units of 1e-16, always a whole multiple of One * 1e-8) and the radius
\* whose square is rr: zero iff the quotient is >= 1, i.e. n >= 0 and
\* (n / One)**2 >= 4 * rr.  A zero radius gives 0/0 = nan or n/0 = +-inf.
AngleOf(n, rr) ==
    IF Sign(rr) = 0
    THEN IF Sign(n) = 0 THEN "nan" ELSE IF Sign(n) > 0 THEN "zero" ELSE "pos"
    ELSE IF Sign(n) >= 0
            /\ Sign(Sub(Mul(n[1], n[1]), <<4 * rr[1], 4 * rr[2], 4 * rr[3]>>)) >= 0
         THEN "zero"
         ELSE "pos"

\* c_ad(x, y): the angle and the radii the call divided by.
c_ad(x, y) ==
    LET rr1 == r1(x, y)
        rr2 == r2(x, y)
    IN  IF RadiusIsZero(rr1) THEN [val |-> "zero", divs |-> {}]
        ELSE [val |-> AngleOf(Sub(Add(rr1, Mul(One, One)), rr2), rr1),
              divs |-> {rr1}]

\* c_bd(x, y): the angle and the radii the call divided by.
c_bd(x, y) ==
    LET rr1 == r1(x, y)
        rr2 == r2(x, y)
    IN  IF RadiusIsZero(rr2) THEN [val |-> "zero", divs |-> {}]
        ELSE [val |-> AngleOf(Sub(Add(rr2, Mul(One, One)), rr1), rr2),
              divs |-> {rr2}]

\* rr**2 * (c - sin(c)) for c >= 0: zero iff rr = 0 or c = 0.
Segment(rr, c) ==
    IF c = "nan" THEN "nan"
    ELSE IF Sign(rr) = 0 \/ c = "zero" THEN "zero"
    ELSE "pos"

\* 0.5 * (s1 + s2) for s1, s2 >= 0.
HalfSum(s1, s2) ==
    IF s1 = "nan" \/ s2 = "nan" THEN "nan"
    ELSE IF s1 = "zero" /\ s2 = "zero" THEN "zero"
    ELSE "pos"

\* intersection_area(x, y): the area and the radii the call divided by.
intersection_area(x, y) ==
    LET rr1 == r1(x, y)
        rr2 == r2(x, y)
    IN  IF RadiusIsZero(rr1) \/ RadiusIsZero(rr2)
        THEN [val |-> "zero", divs |-> {}]
        ELSE LET cad == c_ad(x, y)
                 cbd == c_bd(x, y)
             IN  [val |-> HalfSum(Segment(rr1, cad.val), Segment(rr2, cbd.val)),
                  divs |-> cad.divs \cup cbd.divs]

\* A(x, y) = pi*r1**2/4 + pi*r2**2/4 - intersection_area(x, y), kept as its
\* three terms.
A(x, y) == [q1 |-> r1(x, y), q2 |-> r2(x, y), lens |-> intersection_area(x, y)]

-----------------------------------------------------------------------------
(* Exact evaluator: integration domain.                                    *)

\* Points of the unit square handed to the integrand.
UnitGrid ==
    { Pt(i * (One \div GridN), j * (One \div GridN)) : i, j \in 0..GridN }
    \cup { Pt(0, 0), Pt(One, 0), Pt(Half, 0), Pt(Half, Half) }
    \cup RandPoints

\* First dblquad: xx in [0, 0.5], yy in [0, xx].
RegionA(p) == 0 <= p.x /\ p.x <= Half /\ 0 <= p.y /\ p.y <= p.x

\* Faulty variant of RegionB: the upper limit of yy is xx, as in the first dblquad.
RegionB_upper_xx(p) == Half <= p.x /\ p.x <= One /\ 0 <= p.y /\ p.y <= p.x

\* Second dblquad: xx in [0.5, 1], yy in [0, 1 - xx].
RegionB(p) == Half <= p.x /\ p.x <= One /\ 0 <= p.y /\ p.y <= One - p.x

\* The first dblquad evaluates lambda yy, xx: A(xx, yy) at probe.
IntegrandI1 ==
    /\ integrand.kind = "none"
    /\ RegionA(probe)
    /\ integrand' = [kind |-> "I1", area |-> A(probe.x, probe.y)]
    /\ UNCHANGED <<simVars, probe>>

\* The second dblquad evaluates lambda yy, xx: A(xx, yy) at probe.
IntegrandI2 ==
    /\ integrand.kind = "none"
    /\ RegionB(probe)
    /\ integrand' = [kind |-> "I2", area |-> A(probe.x, probe.y)]
    /\ UNCHANGED <<simVars, probe>>

-----------------------------------------------------------------------------
(* Specifications.                                                         *)

Init ==
    /\ num_samples \in 1..MaxN
    /\ pc = "loop"
    /\ blue = <<>>
    /\ red = <<>>
    /\ mask = <<>>
    /\ a_vals = <<>>
    /\ hits = <<>>
    /\ successes = 0
    /\ probability = [kind |-> "none"]
    /\ probe = Pt(0, 0)
    /\ integrand = [kind |-> "none"]

Next == SampleRound \/ Truncate \/ DrawRed \/ Evaluate

\* vectorized_simulation(num_samples).
Spec == Init /\ [][Next]_vars

\* A round of the loop whose batch holds at least one point of the triangle.
AcceptingRound ==
    \E pts \in Batches(num_samples) :
        /\ \E i \in 1..num_samples : valid(pts[i])
        /\ SampleRoundWith(pts)

NextSampler == SampleRound \/ Truncate

\* The rejection-sampling loop of vectorized_simulation up to the truncation,
\* with a random source that keeps yielding points of the triangle, and a
\* loop that is left once its condition is false.
SamplerFairSpec ==
    /\ Init
    /\ [][NextSampler]_vars
    /\ WF_vars(AcceptingRound)
    /\ WF_vars(Truncate)

InitExact ==
    /\ num_samples = 1
    /\ pc = "idle"
    /\ blue = <<>>
    /\ red = <<>>
    /\ mask = <<>>
    /\ a_vals = <<>>
    /\ hits = <<>>
    /\ successes = 0
    /\ probability = [kind |-> "none"]
    /\ probe \in UnitGrid
    /\ integrand = [kind |-> "none"]

NextExact == IntegrandI1 \/ IntegrandI2

\* The integrand of the two dblquad calls at one point of the unit square.
SpecExact == InitExact /\ [][NextExact]_vars

-----------------------------------------------------------------------------
(* Properties.                                                             *)

\* C1: the sampler ends with exactly num_samples blue points: the loop is
\* left only once at least num_samples points are accumulated, and what is
\* kept is the first num_samples entries of the accumulated list.
C1_ExactlyN ==
    [][ /\ (pc = "loop" /\ pc' # "loop") =>
             /\ Len(blue) >= num_samples
             /\ Len(blue') = num_samples
             /\ \A i \in 1..num_samples : blue'[i] = blue[i]
        /\ pc' # "loop" => Len(blue') = num_samples ]_vars

C1_Witness ==
    /\ pc = "red"
    /\ num_samples = 2
    /\ Len(blue) = 2
    /\ blue[1] # blue[2]

\* C2: every blue point held by the sampler, in every round and after
\* truncation, satisfies 0 <= y <= 0.5, y <= x and y <= 1 - x.
C2_BlueInTriangle ==
    \A i \in 1..Len(blue) :
        /\ 0 <= blue[i].y
        /\ blue[i].y <= Half
        /\ blue[i].y <= blue[i].x
        /\ blue[i].y <= One - blue[i].x

C2_Witness ==
    /\ pc = "loop"
    /\ Len(blue) > num_samples
    /\ \E i \in 1..Len(blue) : blue[i].y = blue[i].x

\* C3: inside the loop the accepted count never decreases, a round runs only
\* while the count is below num_samples, and the loop is eventually left
\* (given a random source that keeps yielding points of the triangle).
C3_LoopTerminates ==
    /\ [][ (pc = "loop" /\ pc' = "loop") =>
             /\ Len(blue') >= Len(blue)
             /\ (blue' # blue => Len(blue) < num_samples) ]_vars
    /\ <>(pc # "loop")

C3_Witness ==
    /\ pc = "red"
    /\ num_samples = MaxN
    /\ Len(blue) = MaxN

\* C4: a pair with exactly equal x-coordinates is masked out, no element of
\* a_vals is computed with a zero divisor, and the pairs a is computed for
\* are exactly the pairs counted in the denominator.
C4_EqualXExcluded ==
    pc = "done" =>
        /\ \A i \in 1..num_samples : red[i].x = blue[i].x => ~mask[i]
        /\ \A k \in DOMAIN a_vals : a_vals[k].den # 0
        /\ Len(a_vals) = Cardinality({ i \in 1..num_samples : mask[i] })
        /\ Len(hits) = Len(a_vals)
        /\ successes <= Cardinality({ i \in 1..num_samples :
                                        red[i].x # blue[i].x })
        /\ probability.kind = "frac" =>
             /\ probability.num = successes
             /\ probability.den = Cardinality({ i \in 1..num_samples : mask[i] })
             /\ probability.den <= Cardinality({ i \in 1..num_samples :
                                                   red[i].x # blue[i].x })

C4_Witness ==
    /\ pc = "done"
    /\ \E i \in 1..num_samples : red[i].x = blue[i].x
    /\ \E j \in 1..num_samples : mask[j]
    /\ probability.kind = "frac"

\* C5: a pair is excluded exactly when |x2 - x1| is below the absolute
\* tolerance 1e-8: pairs differing by more than 1e-8 are retained, pairs
\* differing by less are excluded.
C5_AbsoluteTolerance ==
    pc = "done" =>
        \A i \in 1..num_samples :
            /\ Abs(red[i].x - blue[i].x) > ATOL => mask[i]
            /\ Abs(red[i].x - blue[i].x) < ATOL => ~mask[i]

\* C6: the output is successes / retained_count, a well-defined value in
\* [0, 1]: the divisor is not zero and successes <= retained_count.
C6_ProbabilityInUnitInterval ==
    pc = "done" =>
        /\ probability.kind = "frac"
        /\ probability.den # 0
        /\ probability.num = successes
        /\ probability.den = Cardinality({ i \in 1..num_samples : mask[i] })
        /\ 0 <= probability.num
        /\ probability.num <= probability.den

\* a = (x2^2 - x1^2 + y2^2 - y1^2) / (2 (x2 - x1)) lies in [0, 1], for
\* x2 # x1, with the numerator written (x2 - x1)(x2 + x1) + (y2 - y1)(y2 + y1).
InUnitInterval(b, r) ==
    LET dx  == r.x - b.x
        num == Add(Mul(dx, r.x + b.x), Mul(r.y - b.y, r.y + b.y))
    IN  /\ Sign(num) * SignInt(dx) >= 0
        /\ Sign(Sub(num, Mul(2 * One, dx))) * SignInt(dx) <= 0

\* C7: a retained pair is counted as a success iff 0 <= a <= 1, both bounds
\* inclusive.
C7_SuccessIffInUnitInterval ==
    pc = "done" =>
        /\ \A k \in DOMAIN hits :
             hits[k] <=> InUnitInterval(blue[Pick(mask, k)], red[Pick(mask, k)])
        /\ successes = Cardinality({ k \in DOMAIN hits : hits[k] })

C7_Witness ==
    /\ pc = "done"
    /\ \E k \in DOMAIN hits : hits[k] /\ Sign(a_vals[k].num) = 0
    /\ \E k \in DOMAIN hits :
          hits[k] /\ Sign(Sub(a_vals[k].num, Mul(One, a_vals[k].den))) = 0

\* C8: intersection_area returns 0 when r1 = 0 (x = y = 0) or r2 = 0
\* (x = 1, y = 0), and no division by a zero radius is performed.
C8_ZeroRadius ==
    integrand.kind # "none" =>
        /\ \A d \in integrand.area.lens.divs : d # <<0, 0, 0>>
        /\ ((probe.x = 0 \/ probe.x = One) /\ probe.y = 0) =>
             /\ integrand.area.lens.val = "zero"
             /\ integrand.area.lens.divs = {}

C8_Witness ==
    /\ integrand.kind = "I2"
    /\ probe = Pt(One, 0)
    /\ integrand.area.lens.val = "zero"

\* C10: a point of the unit square lies in Region A or Region B iff it
\* satisfies the sampler's membership predicate, and the two regions overlap
\* only on the line x = 0.5.
C10_DomainIsTriangle ==
    /\ (RegionA(probe) \/ RegionB(probe)) <=> (0 <= probe.y /\ valid(probe))
    /\ (RegionA(probe) /\ RegionB(probe)) => probe.x = Half

C10_Witness ==
    /\ integrand.kind = "I2"
    /\ RegionA(probe)
    /\ RegionB(probe)
    /\ probe.y > 0
====
